---------------------------- MODULE Spec2Model ----------------------------
(***************************************************************************)
(* Model of flytekit/core/data_persistence.py: the DataPersistencePlugins  *)
(* registry, the DiskPersistence backend and the FileAccessProvider.       *)
(*                                                                         *)
(* Strings are sequences of tokens.  A token stands for a run of           *)
(* characters that the modelled paths never split ("file:", "/", "tmp",    *)
(* "a.txt", ...), so str.startswith, str.replace, os.path.join and         *)
(* os.path.split act on token sequences as they act on the characters.     *)
(***************************************************************************)
EXTENDS Integers, Sequences, FiniteSets, Bags, TLC

VARIABLES
    PLUGINS,    \* DataPersistencePlugins._PLUGINS
    client,     \* the FileAccessProvider: its fields
    last,       \* the latest call: its arguments, the registry before it, its outcome
    prev,       \* the call before the latest, in short
    regOrder,   \* history: the protocols in the order each was first registered
    forcedTo    \* history: per protocol, the plugin a forced replacement bound to
                \* it, None once the protocol is registered again

VARIABLES
    fs,         \* the local filesystem: its directories and its regular files
    dop         \* the latest DiskPersistence call: its arguments and its outcome

VARIABLES
    req,        \* per concurrent caller of upload: its from_path and to_path
    pc,         \* per caller: where it is in upload
    level,      \* per caller: the directory its os.makedirs call is working on
    tolerated   \* per caller: whether its makedirs raised and the path was a directory

regVars == <<PLUGINS, client, last, prev, regOrder, forcedTo>>
diskVars == <<fs, dop>>
callerVars == <<req, pc, level, tolerated>>

vars == <<PLUGINS, client, last, prev, regOrder, forcedTo, fs, dop,
          req, pc, level, tolerated>>

None == "None"

----------------------------------------------------------------------------
(* Strings                                                                 *)

SLASH == "/"

\* DiskPersistence.PROTOCOL = "file://"
PROTOCOL == <<"file:", "/", "/">>

\* str.startswith
StartsWith(s, k) == Len(k) <= Len(s) /\ SubSeq(s, 1, Len(k)) = k

\* s in m, for strings
IsSubstring(s, m) ==
    \E i \in 0..(Len(m) - Len(s)) : SubSeq(m, i + 1, i + Len(s)) = s

\* str(bool), as str.format and f-strings render a bool
StrBool(b) == IF b THEN <<"True">> ELSE <<"False">>

\* os.path.join(a, b) of posixpath: an absolute b discards a; a separator is
\* added unless a is empty or ends with one.
Join2(a, b) ==
    IF StartsWith(b, <<SLASH>>) THEN b
    ELSE IF a = <<>> \/ a[Len(a)] = SLASH THEN a \o b
    ELSE a \o <<SLASH>> \o b

\* os.path.join(*args), args a non-empty sequence of strings
RECURSIVE JoinAll(_)
JoinAll(args) ==
    IF Len(args) = 1 THEN args[1]
    ELSE Join2(JoinAll(SubSeq(args, 1, Len(args) - 1)), args[Len(args)])

\* p.rfind("/") + 1
LastSlash(p) ==
    IF \E i \in 1..Len(p) : p[i] = SLASH
    THEN CHOOSE i \in 1..Len(p) : p[i] = SLASH /\ \A j \in (i + 1)..Len(p) : p[j] # SLASH
    ELSE 0

\* The tail of os.path.split(p): everything after the last separator.
SplitTail(p) == SubSeq(p, LastSlash(p) + 1, Len(p))

----------------------------------------------------------------------------
(* Backends.  DataPersistence defines no __eq__, so p == plugin compares   *)
(* object identity: a backend is modelled by its identity, its name is a   *)
(* field of it.                                                            *)

\* The two DiskPersistence() instances registered at module load.
DISK_FILE == "disk_file"
DISK_ROOT == "disk_root"
\* A backend registered by a plugin.
MEM == "mem"
\* FileAccessProvider._local, the DiskPersistence() the provider creates.
DISK_LOCAL == "disk_local"

DiskInstances == {DISK_FILE, DISK_ROOT, DISK_LOCAL}

\* DataPersistence.name: DiskPersistence passes name="local".
Name(b) == IF b \in DiskInstances THEN "local" ELSE b

----------------------------------------------------------------------------
(* DataPersistencePlugins: _PLUGINS is a dict, which keeps its keys in     *)
(* insertion order; assigning to a present key keeps the key's position.   *)
(* It is the sequence of its items, [k |-> protocol, p |-> plugin].        *)

Keys(d) == {d[i].k : i \in 1..Len(d)}

\* protocol in cls._PLUGINS
HasKey(d, protocol) == protocol \in Keys(d)

IndexOf(d, protocol) == CHOOSE i \in 1..Len(d) : d[i].k = protocol

\* cls._PLUGINS[protocol]
GetItem(d, protocol) == d[IndexOf(d, protocol)].p

\* A dict assignment that moves a re-assigned key to the end.
SetItemMoveToEnd(d, protocol, plugin) ==
    SelectSeq(d, LAMBDA it : it.k # protocol) \o <<[k |-> protocol, p |-> plugin]>>

\* cls._PLUGINS[protocol] = plugin
SetItem(d, protocol, plugin) ==
    IF HasKey(d, protocol)
    THEN [d EXCEPT ![IndexOf(d, protocol)].p = plugin]
    ELSE Append(d, [k |-> protocol, p |-> plugin])

\* The TypeError message of register_plugin: the pieces the f-string joins.
ConflictMessage(protocol, plugin, p) ==
    <<"Cannot register plugin ", Name(plugin), " for protocol ">> \o protocol
    \o <<" as plugin ", Name(p), " is already registered for the same protocol.",
         " You can force register the new plugin by passing force=True">>

\* register_plugin without the force test: a different plugin always replaces.
RegisterPluginAlwaysReplace(d, protocol, plugin, force) ==
    [plugins |-> SetItem(d, protocol, plugin), status |-> "ok", msg |-> <<>>]

\* register_plugin without the p == plugin test.
RegisterPluginNoEqTest(d, protocol, plugin, force) ==
    IF HasKey(d, protocol) /\ ~force
    THEN [plugins |-> d, status |-> "TypeError",
          msg |-> ConflictMessage(protocol, plugin, GetItem(d, protocol))]
    ELSE [plugins |-> SetItem(d, protocol, plugin), status |-> "ok", msg |-> <<>>]

\* register_plugin that never replaces a bound protocol.
RegisterPluginIgnoreForce(d, protocol, plugin, force) ==
    IF HasKey(d, protocol)
    THEN [plugins |-> d, status |-> "ok", msg |-> <<>>]
    ELSE [plugins |-> SetItem(d, protocol, plugin), status |-> "ok", msg |-> <<>>]

\* DataPersistencePlugins.register_plugin: the dict it leaves and how it ends.
RegisterPlugin(d, protocol, plugin, force) ==
    IF HasKey(d, protocol) /\ GetItem(d, protocol) = plugin
    THEN [plugins |-> d, status |-> "ok", msg |-> <<>>]
    ELSE IF HasKey(d, protocol) /\ ~force
    THEN [plugins |-> d, status |-> "TypeError",
          msg |-> ConflictMessage(protocol, plugin, GetItem(d, protocol))]
    ELSE [plugins |-> SetItem(d, protocol, plugin), status |-> "ok", msg |-> <<>>]

\* The TypeError message of find_plugin.
NotFoundMessage(path) == <<"No plugin found for matching protocol of path ">> \o path

Matches(d, path) == {i \in 1..Len(d) : StartsWith(path, d[i].k)}

\* find_plugin returning the last matching item instead of the first.
FindPluginLastMatch(d, path) ==
    IF Matches(d, path) = {}
    THEN [status |-> "TypeError", ret |-> None,
          msg |-> NotFoundMessage(path)]
    ELSE [status |-> "ok", msg |-> <<>>,
          ret |-> d[CHOOSE i \in Matches(d, path) : \A j \in Matches(d, path) : j <= i].p]

\* DataPersistencePlugins.find_plugin: the first item, in dict order, whose
\* key the path starts with.
FindPlugin(d, path) ==
    IF Matches(d, path) = {}
    THEN [status |-> "TypeError", ret |-> None,
          msg |-> NotFoundMessage(path)]
    ELSE [status |-> "ok", msg |-> <<>>,
          ret |-> d[CHOOSE i \in Matches(d, path) : \A j \in Matches(d, path) : i <= j].p]

----------------------------------------------------------------------------
(* Inputs                                                                  *)

P_ROOT == <<"/">>
P_MEM == <<"mem:", "/", "/">>
P_TMP == <<"/", "tmp">>

Protocols == {PROTOCOL, P_ROOT, P_MEM, P_TMP}

\* The plugins the register calls pass: a DiskPersistence instance and another backend.
Plugins == {DISK_ROOT, MEM}

MemPath == <<"mem:", "/", "/", "bucket", "/", "key">>
TmpPath == <<"/", "tmp", "/", "x">>

FilePath == <<"file:", "/", "/", "/", "d">>
S3Path == <<"s3:", "/", "/", "b">>

Paths == {MemPath, TmpPath, FilePath, S3Path}

----------------------------------------------------------------------------
(* State                                                                   *)

Blank ==
    [op |-> "none", protocol |-> <<>>, plugin |-> None, force |-> FALSE,
     path |-> <<>>, local |-> <<>>, multipart |-> FALSE, hint |-> <<>>,
     key |-> <<>>, status |-> "ok", msg |-> <<>>, ret |-> None, rpath |-> <<>>,
     before |-> <<>>, calls |-> <<>>, fault |-> <<>>, made |-> <<>>]

\* What prev keeps of a call: whether it was a register_plugin call that
\* returned normally, and then its protocol and plugin.
Short(c) ==
    IF c.op = "register_plugin" /\ c.status = "ok"
    THEN [registered |-> TRUE, protocol |-> c.protocol, plugin |-> c.plugin]
    ELSE [registered |-> FALSE, protocol |-> <<>>, plugin |-> None]

\* tmp_dir = os.path.join("/tmp/flyte", datetime.datetime.now().strftime(...))
tmp_dir == Join2(<<"/", "tmp", "/", "flyte">>, <<"now">>)

\* The module-level register_plugin calls: "file://" and "/" each get a
\* DiskPersistence() of their own.
PluginsAtLoad ==
    RegisterPlugin(RegisterPlugin(<<>>, PROTOCOL, DISK_FILE, FALSE).plugins,
                   P_ROOT, DISK_ROOT, FALSE).plugins

\* FileAccessProvider.__init__ past its empty-path test: the fields it sets.
NewProvider(d, local_sandbox_dir, raw_output_prefix) ==
    [local_sandbox_dir |-> Join2(local_sandbox_dir, <<"local_flytekit">>),
     local |-> DISK_LOCAL,
     default_remote |-> FindPlugin(d, raw_output_prefix).ret,
     raw_output_prefix |-> raw_output_prefix]

\* default_local_file_access_provider
DefaultProvider ==
    NewProvider(PluginsAtLoad, Join2(tmp_dir, <<"sandbox">>), Join2(tmp_dir, <<"raw">>))

\* The filesystem the model starts from: /d holding a.txt and sub/b.txt, and
\* an empty /e.
FsAtStart ==
    [dirs |-> {<<"/", "d">>, <<"/", "d", "/", "sub">>, <<"/", "e">>},
     files |-> {<<"/", "d", "/", "a.txt">>, <<"/", "d", "/", "sub", "/", "b.txt">>}]

DiskBlank ==
    [op |-> "none", path |-> <<>>, recursive |-> FALSE, from |-> <<>>, to |-> <<>>,
     status |-> "ok", yields |-> EmptyBag, copied |-> FALSE]

InitRegistry ==
    /\ PLUGINS = PluginsAtLoad
    /\ client = DefaultProvider
    /\ last = Blank
    /\ prev = Short(Blank)
    /\ regOrder = <<PROTOCOL, P_ROOT>>
    /\ forcedTo = [P \in Protocols |-> None]

InitDisk ==
    /\ fs = FsAtStart
    /\ dop = DiskBlank

\* The number of concurrent callers of upload
NumCallers == 2

Callers == 1..NumCallers

\* No caller is inside upload.
InitCallers ==
    /\ req = [c \in Callers |-> [from |-> <<>>, to |-> <<>>]]
    /\ pc = [c \in Callers |-> "idle"]
    /\ level = [c \in Callers |-> <<>>]
    /\ tolerated = [c \in Callers |-> FALSE]

Init == InitRegistry /\ InitDisk /\ InitCallers

----------------------------------------------------------------------------
(* The registry's operations                                               *)

\* A call of DataPersistencePlugins.register_plugin(protocol, plugin, force)
Register(protocol, plugin, force) ==
    LET r == RegisterPlugin(PLUGINS, protocol, plugin, force)
        replaced == /\ r.status = "ok"
                    /\ force
                    /\ HasKey(PLUGINS, protocol)
                    /\ GetItem(PLUGINS, protocol) # plugin
    IN  /\ PLUGINS' = r.plugins
        /\ last' = [Blank EXCEPT !.op = "register_plugin", !.protocol = protocol,
                                 !.plugin = plugin, !.force = force,
                                 !.status = r.status, !.msg = r.msg,
                                 !.before = PLUGINS]
        /\ prev' = Short(last)
        /\ regOrder' = IF r.status = "ok" /\ ~HasKey(PLUGINS, protocol)
                       THEN Append(regOrder, protocol) ELSE regOrder
        /\ forcedTo' = [forcedTo EXCEPT ![protocol] = IF replaced THEN plugin ELSE None]
        /\ UNCHANGED client

\* A call of DataPersistencePlugins.find_plugin(path)
Find(path) ==
    LET r == FindPlugin(PLUGINS, path)
    IN  /\ last' = [Blank EXCEPT !.op = "find_plugin", !.path = path,
                                 !.status = r.status, !.msg = r.msg, !.ret = r.ret,
                                 !.before = PLUGINS]
        /\ prev' = Short(last)
        /\ UNCHANGED <<PLUGINS, client, regOrder, forcedTo>>

RegisterAny ==
    /\ \E protocol \in Protocols, plugin \in Plugins, force \in BOOLEAN :
           Register(protocol, plugin, force)
    /\ UNCHANGED <<diskVars, callerVars>>

FindAny ==
    /\ \E path \in Paths : Find(path)
    /\ UNCHANGED <<diskVars, callerVars>>

Next == RegisterAny \/ FindAny

Spec == Init /\ [][Next]_vars

----------------------------------------------------------------------------
(* FileAccessProvider                                                      *)

\* random.random.getrandbits(128): the width of the key, in bits
KeyBits == 128

\* The length of UUID(int=n).hex: one digit per four bits, zero-padded
HexLen == KeyBits \div 4

HexDigits ==
    <<"0", "1", "2", "3", "4", "5", "6", "7", "8", "9", "a", "b", "c", "d", "e", "f">>

\* UUID(int=n).hex, n given by its HexLen base-16 digits, most significant first
Hex(n) == [i \in 1..HexLen |-> HexDigits[n[i] + 1]]

\* The values getrandbits returns in the model: 0, 2^128 - 1 and one between
RandBits ==
    {[i \in 1..HexLen |-> 0], [i \in 1..HexLen |-> 15],
     [i \in 1..HexLen |-> (7 * i) % 16]}

\* The exception a backend call raises: its str(), <<>> when it raises none
NoFault == <<>>
Faults == {NoFault, <<"boom">>}

\* DiskPersistence.construct_path
ConstructPath(add_protocol, args) ==
    IF add_protocol THEN JoinAll(<<PROTOCOL>> \o args) ELSE JoinAll(args)

\* FileAccessProvider.construct_random_path for a DiskPersistence persist;
\* file_path_or_file_name is <<>> for None and for "", n is what getrandbits
\* returned.
ConstructRandomPath(c, persist, file_path_or_file_name, n) ==
    LET key == Hex(n)
        tail == SplitTail(file_path_or_file_name)
    IN  IF file_path_or_file_name # <<>> /\ tail # <<>>
        THEN ConstructPath(FALSE, <<c.raw_output_prefix, key, tail>>)
        ELSE ConstructPath(FALSE, <<c.raw_output_prefix, key>>)

\* The FlyteAssertion message of get_data
GetDataMessage(remote_path, local_path, is_multipart, error_string) ==
    <<"Failed to get data from ">> \o remote_path \o <<" to ">> \o local_path
    \o <<" (recursive=">> \o StrBool(is_multipart)
    \o <<").\n\nOriginal exception: ">> \o error_string

\* The FlyteAssertion message of put_data
PutDataMessage(local_path, remote_path, is_multipart, error_string) ==
    <<"Failed to put data from ">> \o local_path \o <<" to ">> \o remote_path
    \o <<" (recursive=">> \o StrBool(is_multipart)
    \o <<").\n\nOriginal exception: ">> \o error_string

\* A call on a backend
BackendCall(backend, op, from, to) ==
    [backend |-> backend, op |-> op, from |-> from, to |-> to]

\* get_data without its try/except: the error leaves as it was raised.
GetDataBare(d, remote_path, local_path, is_multipart, fault) ==
    LET r == FindPlugin(d, remote_path)
        op == IF is_multipart THEN "download_directory" ELSE "download"
    IN  IF r.status # "ok"
        THEN [status |-> r.status, msg |-> r.msg, calls |-> <<>>]
        ELSE [status |-> IF fault = NoFault THEN "ok" ELSE "Exception",
              msg |-> fault,
              calls |-> <<BackendCall(r.ret, op, remote_path, local_path)>>]

\* FileAccessProvider.get_data: download / download_directory resolve the
\* backend of remote_path and call it; fault is what that call raises.
GetData(d, remote_path, local_path, is_multipart, fault) ==
    LET r == FindPlugin(d, remote_path)
        op == IF is_multipart THEN "download_directory" ELSE "download"
    IN  IF r.status # "ok"
        THEN [status |-> "FlyteAssertion",
              msg |-> GetDataMessage(remote_path, local_path, is_multipart, r.msg),
              calls |-> <<>>]
        ELSE [status |-> IF fault = NoFault THEN "ok" ELSE "FlyteAssertion",
              msg |-> IF fault = NoFault THEN <<>>
                      ELSE GetDataMessage(remote_path, local_path, is_multipart, fault),
              calls |-> <<BackendCall(r.ret, op, remote_path, local_path)>>]

\* put_data resolving the backend of remote_path, as upload does.
PutDataTargetResolved(c, d, remote_path) == FindPlugin(d, remote_path).ret

\* The backend put_data calls: self._default_remote
PutDataTarget(c, d, remote_path) == c.default_remote

\* FileAccessProvider.put_data
PutData(c, d, local_path, remote_path, is_multipart, fault) ==
    LET op == IF is_multipart THEN "upload_directory" ELSE "upload"
    IN  [status |-> IF fault = NoFault THEN "ok" ELSE "FlyteAssertion",
         msg |-> IF fault = NoFault THEN <<>>
                 ELSE PutDataMessage(local_path, remote_path, is_multipart, fault),
         calls |-> <<BackendCall(PutDataTarget(c, d, remote_path), op,
                                 local_path, remote_path)>>]

\* Inputs of the provider's operations
SandboxDirs == {<<>>, <<"/", "sb">>}
RawPrefixes == {<<"/", "out">>, <<"mem:", "/", "/", "out">>, S3Path}
LocalPaths == {<<"/", "l">>}
Hints == {<<>>, <<"dir", "/", "name.csv">>, <<"dir", "/">>}
ClientProtocols == {P_ROOT, P_MEM}

\* A call of FileAccessProvider(local_sandbox_dir, raw_output_prefix); a
\* constructor that raises leaves the provider in use as it was.
ProviderInit(local_sandbox_dir, raw_output_prefix) ==
    LET r == FindPlugin(PLUGINS, raw_output_prefix)
        status == IF local_sandbox_dir = <<>> THEN "Exception" ELSE r.status
        made == IF local_sandbox_dir = <<>> THEN <<>>
                ELSE Join2(local_sandbox_dir, <<"local_flytekit">>)
    IN  /\ client' = IF status = "ok"
                     THEN NewProvider(PLUGINS, local_sandbox_dir, raw_output_prefix)
                     ELSE client
        /\ last' = [Blank EXCEPT !.op = "__init__", !.local = local_sandbox_dir,
                                 !.path = raw_output_prefix, !.status = status,
                                 !.msg = IF local_sandbox_dir = <<>>
                                         THEN <<"Can't use empty path">> ELSE r.msg,
                                 !.made = made, !.before = PLUGINS]
        /\ prev' = Short(last)
        /\ UNCHANGED <<PLUGINS, regOrder, forcedTo>>

\* A call of get_data(remote_path, local_path, is_multipart)
GetDataCall(remote_path, local_path, is_multipart, fault) ==
    LET r == GetData(PLUGINS, remote_path, local_path, is_multipart, fault)
    IN  /\ last' = [Blank EXCEPT !.op = "get_data", !.path = remote_path,
                                 !.local = local_path, !.multipart = is_multipart,
                                 !.fault = IF r.calls = <<>> THEN NoFault ELSE fault,
                                 !.status = r.status, !.msg = r.msg,
                                 !.calls = r.calls, !.before = PLUGINS]
        /\ prev' = Short(last)
        /\ UNCHANGED <<PLUGINS, client, regOrder, forcedTo>>

\* A call of put_data(local_path, remote_path, is_multipart)
PutDataCall(local_path, remote_path, is_multipart, fault) ==
    LET r == PutData(client, PLUGINS, local_path, remote_path, is_multipart, fault)
    IN  /\ last' = [Blank EXCEPT !.op = "put_data", !.path = remote_path,
                                 !.local = local_path, !.multipart = is_multipart,
                                 !.fault = fault, !.status = r.status, !.msg = r.msg,
                                 !.calls = r.calls, !.before = PLUGINS]
        /\ prev' = Short(last)
        /\ UNCHANGED <<PLUGINS, client, regOrder, forcedTo>>

\* A call of get_random_remote_path(hint), or of get_random_remote_directory()
\* when directory, which passes None
GetRandomRemotePath(hint, n, directory) ==
    /\ client.default_remote \in DiskInstances
    /\ last' = [Blank EXCEPT !.op = IF directory THEN "get_random_remote_directory"
                                    ELSE "get_random_remote_path",
                             !.plugin = client.default_remote,
                             !.hint = hint, !.key = Hex(n),
                             !.rpath = ConstructRandomPath(client, client.default_remote,
                                                           hint, n)]
    /\ prev' = Short(last)
    /\ UNCHANGED <<PLUGINS, client, regOrder, forcedTo>>

\* A call of get_random_local_path(hint), or of get_random_local_directory()
\* when directory, which passes None and makes the directory
GetRandomLocalPath(hint, n, directory) ==
    LET path == ConstructRandomPath(client, client.local, hint, n)
    IN  /\ last' = [Blank EXCEPT !.op = IF directory THEN "get_random_local_directory"
                                        ELSE "get_random_local_path",
                                 !.plugin = client.local,
                                 !.hint = hint, !.key = Hex(n), !.rpath = path,
                                 !.made = IF directory THEN path ELSE <<>>]
        /\ prev' = Short(last)
        /\ UNCHANGED <<PLUGINS, client, regOrder, forcedTo>>

ProviderInitAny ==
    /\ \E local_sandbox_dir \in SandboxDirs, raw_output_prefix \in RawPrefixes :
           ProviderInit(local_sandbox_dir, raw_output_prefix)
    /\ UNCHANGED <<diskVars, callerVars>>

GetDataAny ==
    /\ \E remote_path \in {TmpPath, MemPath, S3Path}, local_path \in LocalPaths,
          is_multipart \in BOOLEAN, fault \in Faults :
           GetDataCall(remote_path, local_path, is_multipart, fault)
    /\ UNCHANGED <<diskVars, callerVars>>

PutDataAny ==
    /\ \E local_path \in LocalPaths, remote_path \in {TmpPath, FilePath, MemPath},
          is_multipart \in BOOLEAN, fault \in Faults :
           PutDataCall(local_path, remote_path, is_multipart, fault)
    /\ UNCHANGED <<diskVars, callerVars>>

RandomRemoteAny ==
    /\ \E hint \in Hints, n \in RandBits, directory \in BOOLEAN :
           (directory => hint = <<>>) /\ GetRandomRemotePath(hint, n, directory)
    /\ UNCHANGED <<diskVars, callerVars>>

RandomLocalAny ==
    /\ \E hint \in Hints, n \in RandBits, directory \in BOOLEAN :
           (directory => hint = <<>>) /\ GetRandomLocalPath(hint, n, directory)
    /\ UNCHANGED <<diskVars, callerVars>>

ClientRegister ==
    /\ \E protocol \in ClientProtocols, plugin \in Plugins, force \in BOOLEAN :
           Register(protocol, plugin, force)
    /\ UNCHANGED <<diskVars, callerVars>>

NextClient ==
    \/ ClientRegister
    \/ ProviderInitAny
    \/ GetDataAny
    \/ PutDataAny
    \/ RandomRemoteAny
    \/ RandomLocalAny

SpecClient == Init /\ [][NextClient]_vars

----------------------------------------------------------------------------
(* DiskPersistence                                                         *)

\* DiskPersistence.strip_file_header: path.replace("file://", "", 1) of a path
\* that starts with "file://"
StripFileHeader(path) ==
    IF StartsWith(path, PROTOCOL)
    THEN SubSeq(path, Len(PROTOCOL) + 1, Len(path))
    ELSE path

\* os.path.isdir, os.path.isfile, os.path.exists
IsDir(f, path) == path \in f.dirs
IsFile(f, path) == path \in f.files
Exists(f, path) == IsDir(f, path) \/ IsFile(f, path)

\* os.listdir(path): the names of the entries of directory path
ListNames(f, path) ==
    {e[Len(e)] : e \in {e \in f.dirs \cup f.files : e = Join2(path, <<e[Len(e)]>>)}}

\* The files and the sub-directories among the entries of directory root, as
\* os.walk splits them
WalkFiles(f, root) == {n \in ListNames(f, root) : IsFile(f, Join2(root, <<n>>))}
WalkSubdirs(f, root) == {n \in ListNames(f, root) : IsDir(f, Join2(root, <<n>>))}

\* One value per element of a set of bags, added up
RECURSIVE BagSum(_)
BagSum(bags) ==
    IF bags = {} THEN EmptyBag
    ELSE LET b == CHOOSE b \in bags : TRUE IN b (+) BagSum(bags \ {b})

\* The recursive branch of listdir yielding each file's bare name.
RECURSIVE WalkYieldsNames(_, _)
WalkYieldsNames(f, root) ==
    SetToBag({<<n>> : n \in WalkFiles(f, root)})
    (+) BagSum({WalkYieldsNames(f, Join2(root, <<n>>)) : n \in WalkSubdirs(f, root)})

\* The recursive branch of listdir: os.walk from root, top down, yielding
\* os.path.join(root, f) for each file f of each directory walked.  The yields
\* are a bag: their order is the order os.listdir gives, which is arbitrary.
RECURSIVE WalkYields(_, _)
WalkYields(f, root) ==
    SetToBag({Join2(root, <<n>>) : n \in WalkFiles(f, root)})
    (+) BagSum({WalkYields(f, Join2(root, <<n>>)) : n \in WalkSubdirs(f, root)})

\* DiskPersistence.listdir on an existing directory
Listdir(f, path, recursive) ==
    IF ~recursive
    THEN SetToBag({<<n>> : n \in ListNames(f, StripFileHeader(path))})
    ELSE WalkYields(f, StripFileHeader(path))

\* The entries below directory src, each as its path from src
Below(f, src, entries) ==
    {SubSeq(e, Len(src) + 2, Len(e)) : e \in {e \in entries : StartsWith(e, src \o <<SLASH>>)}}

\* The ancestors of path, path included, that mkpath creates
Ancestors(path) ==
    {SubSeq(path, 1, i) : i \in {i \in 2..Len(path) : path[i] # SLASH}}

\* distutils.dir_util.copy_tree(src, dst) for a directory src and a dst that is
\* src or lies outside src: dst and its parents are made, each directory below
\* src is made below dst and each file below src is copied below dst.
CopyTree(f, src, dst) ==
    [dirs |-> f.dirs \cup Ancestors(dst)
                \cup {Join2(dst, r) : r \in Below(f, src, f.dirs)},
     files |-> f.files \cup {Join2(dst, r) : r \in Below(f, src, f.files)}]

\* The test of download_directory made on the stripped paths.
SameArgumentsStripped(from_path, to_path) ==
    StripFileHeader(from_path) = StripFileHeader(to_path)

\* The test of download_directory: from_path != to_path, on the arguments as given
SameArguments(from_path, to_path) == from_path = to_path

\* A call of DiskPersistence.listdir(path, recursive), run to its end
ListdirCall(path, recursive) ==
    /\ IsDir(fs, StripFileHeader(path))
    /\ dop' = [DiskBlank EXCEPT !.op = "listdir", !.path = path,
                                !.recursive = recursive,
                                !.yields = Listdir(fs, path, recursive)]
    /\ UNCHANGED fs

\* A call of DiskPersistence.download_directory(from_path, to_path), or of
\* upload_directory, which passes its arguments on to it
DownloadDirectory(op, from_path, to_path) ==
    /\ IsDir(fs, StripFileHeader(from_path))
    /\ dop' = [DiskBlank EXCEPT !.op = op, !.from = from_path, !.to = to_path,
                                !.copied = ~SameArguments(from_path, to_path)]
    /\ fs' = IF SameArguments(from_path, to_path) THEN fs
             ELSE CopyTree(fs, StripFileHeader(from_path), StripFileHeader(to_path))

\* Inputs of the DiskPersistence operations
D == <<"/", "d">>
DSub == <<"/", "d", "/", "sub">>
E == <<"/", "e">>
EX == <<"/", "e", "/", "x">>

ListPaths == {D, PROTOCOL \o D, DSub, E, PROTOCOL \o E, EX}
CopySources == {D, PROTOCOL \o D, DSub}
CopyTargets == {D, PROTOCOL \o D, E, PROTOCOL \o E, EX}

ListdirAny ==
    /\ \E path \in ListPaths, recursive \in BOOLEAN : ListdirCall(path, recursive)
    /\ UNCHANGED <<regVars, callerVars>>

DownloadDirectoryAny ==
    /\ \E from_path \in CopySources, to_path \in CopyTargets :
           DownloadDirectory("download_directory", from_path, to_path)
    /\ UNCHANGED <<regVars, callerVars>>

UploadDirectoryAny ==
    /\ \E from_path \in CopySources, to_path \in CopyTargets :
           DownloadDirectory("upload_directory", from_path, to_path)
    /\ UNCHANGED <<regVars, callerVars>>

NextDisk == ListdirAny \/ DownloadDirectoryAny \/ UploadDirectoryAny

SpecDisk == Init /\ [][NextDisk]_vars

----------------------------------------------------------------------------
(* Concurrent callers of DiskPersistence.upload.  Each filesystem call     *)
(* (exists, mkdir, isdir, the open of copyfile) is one step of its caller. *)

\* os.path.dirname, of a path without doubled or trailing separators
Dirname(p) ==
    IF LastSlash(p) = 0 THEN <<>>
    ELSE IF LastSlash(p) = 1 THEN <<SLASH>>
    ELSE SubSeq(p, 1, LastSlash(p) - 1)

\* The directory upload makes sure of: os.path.dirname of the stripped to_path
ParentOf(to_path) == Dirname(StripFileHeader(to_path))

\* The next directory below lv on the way down to target
NextDown(lv, target) ==
    IF lv = <<SLASH>> THEN SubSeq(target, 1, 2) ELSE SubSeq(target, 1, Len(lv) + 2)

\* _make_local_path with no except clause: any OSError of makedirs is raised.
OnMakedirsErrorRaise(f, path) == "raised_makedirs"

\* _make_local_path's except OSError clause: where the caller goes on
OnMakedirsError(f, path) == IF IsDir(f, path) THEN "copy" ELSE "raised_makedirs"

\* upload calls _make_local_path: if not os.path.exists(path)
UploadExists(c) ==
    /\ pc[c] = "exists"
    /\ IF Exists(fs, ParentOf(req[c].to))
       THEN pc' = [pc EXCEPT ![c] = "copy"] /\ UNCHANGED level
       ELSE /\ pc' = [pc EXCEPT ![c] = "makedirs"]
            /\ level' = [level EXCEPT ![c] = ParentOf(req[c].to)]
    /\ UNCHANGED <<fs, req, tolerated>>

\* os.makedirs(name): if head and tail and not exists(head), makedirs(head) first
MakedirsHead(c) ==
    /\ pc[c] = "makedirs"
    /\ LET head == Dirname(level[c])
           tail == SplitTail(level[c])
       IN  IF head # <<>> /\ tail # <<>> /\ ~Exists(fs, head)
           THEN level' = [level EXCEPT ![c] = head] /\ UNCHANGED pc
           ELSE pc' = [pc EXCEPT ![c] = "mkdir"] /\ UNCHANGED level
    /\ UNCHANGED <<fs, req, tolerated>>

\* os.makedirs(name): mkdir(name).  A FileExistsError of a makedirs(head) call
\* is passed over by the makedirs that made it; any other OSError, and the
\* FileExistsError of the outermost mkdir, reaches _make_local_path.
MakedirsMkdir(c) ==
    /\ pc[c] = "mkdir"
    /\ LET lv == level[c]
           target == ParentOf(req[c].to)
       IN  IF Exists(fs, lv)
           THEN /\ IF lv = target
                   THEN pc' = [pc EXCEPT ![c] = "except"] /\ UNCHANGED level
                   ELSE level' = [level EXCEPT ![c] = NextDown(lv, target)] /\ UNCHANGED pc
                /\ UNCHANGED fs
           ELSE IF ~IsDir(fs, Dirname(lv))
           THEN pc' = [pc EXCEPT ![c] = "except"] /\ UNCHANGED <<level, fs>>
           ELSE /\ fs' = [fs EXCEPT !.dirs = @ \cup {lv}]
                /\ IF lv = target
                   THEN pc' = [pc EXCEPT ![c] = "copy"] /\ UNCHANGED level
                   ELSE level' = [level EXCEPT ![c] = NextDown(lv, target)] /\ UNCHANGED pc
    /\ UNCHANGED <<req, tolerated>>

\* _make_local_path: except OSError: if not os.path.isdir(path): raise
MakeLocalPathExcept(c) ==
    /\ pc[c] = "except"
    /\ pc' = [pc EXCEPT ![c] = OnMakedirsError(fs, ParentOf(req[c].to))]
    /\ tolerated' = [tolerated EXCEPT ![c] = IsDir(fs, ParentOf(req[c].to))]
    /\ UNCHANGED <<fs, req, level>>

\* upload: _copyfile(from_path, to_path), which opens the source and then
\* creates or truncates the destination
UploadCopy(c) ==
    /\ pc[c] = "copy"
    /\ LET src == StripFileHeader(req[c].from)
           dst == StripFileHeader(req[c].to)
       IN  IF IsFile(fs, src) /\ IsDir(fs, Dirname(dst)) /\ ~IsDir(fs, dst)
           THEN /\ fs' = [fs EXCEPT !.files = @ \cup {dst}]
                /\ pc' = [pc EXCEPT ![c] = "done"]
           ELSE pc' = [pc EXCEPT ![c] = "raised_copy"] /\ UNCHANGED fs
    /\ UNCHANGED <<req, level, tolerated>>

\* Inputs: destinations in the missing directory /r/a/b, and one that is the
\* path /r/a/b itself, written as a file
Shared == <<"/", "r", "/", "a", "/", "b">>
UploadSources == {<<"/", "in", "/", "g">>, PROTOCOL \o <<"/", "in", "/", "g">>}
UploadTargets ==
    {Shared \o <<"/", "f1">>, Shared \o <<"/", "f2">>,
     PROTOCOL \o Shared \o <<"/", "f1">>, Shared}

\* The filesystem the callers start from: /r and the source file, no /r/a
FsAtUpload ==
    [dirs |-> {<<"/">>, <<"/", "r">>, <<"/", "in">>},
     files |-> {<<"/", "in", "/", "g">>}]

\* Every caller has called upload(from_path, to_path) and none has taken a step.
InitUpload ==
    /\ InitRegistry
    /\ dop = DiskBlank
    /\ fs = FsAtUpload
    /\ req \in [Callers -> [from : UploadSources, to : UploadTargets]]
    /\ pc = [c \in Callers |-> "exists"]
    /\ level = [c \in Callers |-> <<>>]
    /\ tolerated = [c \in Callers |-> FALSE]

UploadExistsAny ==
    /\ \E c \in Callers : UploadExists(c)
    /\ UNCHANGED <<regVars, dop>>

MakedirsHeadAny ==
    /\ \E c \in Callers : MakedirsHead(c)
    /\ UNCHANGED <<regVars, dop>>

MakedirsMkdirAny ==
    /\ \E c \in Callers : MakedirsMkdir(c)
    /\ UNCHANGED <<regVars, dop>>

MakeLocalPathExceptAny ==
    /\ \E c \in Callers : MakeLocalPathExcept(c)
    /\ UNCHANGED <<regVars, dop>>

UploadCopyAny ==
    /\ \E c \in Callers : UploadCopy(c)
    /\ UNCHANGED <<regVars, dop>>

NextUpload ==
    \/ UploadExistsAny
    \/ MakedirsHeadAny
    \/ MakedirsMkdirAny
    \/ MakeLocalPathExceptAny
    \/ UploadCopyAny

SpecUpload == InitUpload /\ [][NextUpload]_vars

----------------------------------------------------------------------------
(* Claims about the registry, checked under Spec                           *)

\* The latest call was register_plugin(P, B2, force) with P bound to B1 # B2.
RegisteredOverOther(force) ==
    /\ last.op = "register_plugin"
    /\ last.force = force
    /\ HasKey(last.before, last.protocol)
    /\ GetItem(last.before, last.protocol) # last.plugin

\* C1: register(P, B2, force=false) with P bound to a different backend B1
\* fails with the conflict error, whose message names B2, B1 and P, and the
\* registry after the call is the registry before it (same items, same order).
C1_ConflictLeavesRegistry ==
    RegisteredOverOther(FALSE) =>
        /\ last.status = "TypeError"
        /\ IsSubstring(<<"Cannot register plugin ", Name(last.plugin)>>, last.msg)
        /\ IsSubstring(<<" as plugin ", Name(GetItem(last.before, last.protocol))>>, last.msg)
        /\ IsSubstring(<<" for protocol ">> \o last.protocol, last.msg)
        /\ PLUGINS = last.before

C1_Witness ==
    /\ RegisteredOverOther(FALSE)
    /\ last.status = "TypeError"
    /\ Len(PLUGINS) > 2

\* The latest call was register(P, B) right after a register(P, B) that succeeded.
RegisteredTwice ==
    /\ prev.registered
    /\ last.op = "register_plugin"
    /\ last.protocol = prev.protocol
    /\ last.plugin = prev.plugin

ForcedReplaceSucceeds ==
    RegisteredOverOther(TRUE) =>
        /\ last.status = "ok"
        /\ GetItem(PLUGINS, last.protocol) = last.plugin
        /\ forcedTo[last.protocol] = last.plugin

\* C3 as stated: after register(P, B2, force=true) over a different B1, every
\* later find_plugin of a path that starts with P returns B2, until P is
\* registered again.
C3_ForcedThenResolvesNew ==
    /\ ForcedReplaceSucceeds
    /\ last.op = "find_plugin" =>
           \A P \in Protocols :
               (forcedTo[P] # None /\ StartsWith(last.path, P)) =>
                   (last.status = "ok" /\ last.ret = forcedTo[P])

\* No protocol registered before P is a leading substring of path.
NoEarlierMatch(d, P, path) ==
    \A j \in 1..(IndexOf(d, P) - 1) : ~StartsWith(path, d[j].k)

\* C3 amended: ... every later find_plugin of a path that starts with P, and
\* with no protocol registered before P, returns B2.
C3_ForcedThenResolvesNewUnlessShadowed ==
    /\ ForcedReplaceSucceeds
    /\ last.op = "find_plugin" =>
           \A P \in Protocols :
               (/\ forcedTo[P] # None
                /\ StartsWith(last.path, P)
                /\ NoEarlierMatch(last.before, P, last.path)) =>
                   (last.status = "ok" /\ last.ret = forcedTo[P])

C3_Witness ==
    /\ last.op = "find_plugin"
    /\ last.path = MemPath
    /\ forcedTo[P_MEM] = DISK_ROOT
    /\ last.ret = DISK_ROOT

\* The positions in regOrder of the protocols that path starts with.
Candidates(path) == {i \in 1..Len(regOrder) : StartsWith(path, regOrder[i])}

Earliest(path) ==
    regOrder[CHOOSE i \in Candidates(path) : \A j \in Candidates(path) : i <= j]

\* C4: find_plugin(path) returns the backend bound to the earliest-registered
\* protocol that is a leading substring of path, and raises the not-found error
\* iff there is none; with "file://", "/" and "mem://" registered,
\* "mem://bucket/key" resolves to the backend of "mem://" and "/tmp/x" to the
\* backend of "/".
C4_ResolveFirstRegistered ==
    last.op = "find_plugin" =>
        /\ IF Candidates(last.path) = {}
           THEN last.status = "TypeError" /\ last.msg = NotFoundMessage(last.path)
           ELSE last.status = "ok" /\ last.ret = GetItem(PLUGINS, Earliest(last.path))
        /\ {PROTOCOL, P_ROOT, P_MEM} \subseteq Keys(PLUGINS) =>
               /\ last.path = MemPath => last.ret = GetItem(PLUGINS, P_MEM)
               /\ last.path = TmpPath => last.ret = GetItem(PLUGINS, P_ROOT)

C4_Witness ==
    /\ last.op = "find_plugin"
    /\ last.path = TmpPath
    /\ regOrder = <<PROTOCOL, P_ROOT, P_MEM, P_TMP>>
    /\ GetItem(PLUGINS, P_TMP) = MEM
    /\ last.ret = DISK_ROOT

----------------------------------------------------------------------------
(* Claims about the FileAccessProvider, checked under SpecClient           *)

\* C5: get_data never lets an error out bare: when resolving remote_path or
\* the download / download_directory call raises, get_data raises a
\* FlyteAssertion whose message holds the remote path, the local path, the
\* directory flag and the error's message; when nothing raises it makes exactly
\* one call, download or download_directory by the flag, on the backend
\* remote_path resolves to.
C5_GetDataWrapsFailures ==
    last.op = "get_data" =>
        LET r == FindPlugin(last.before, last.path)
            cause == IF r.status # "ok" THEN r.msg ELSE last.fault
        IN  IF cause # <<>>
            THEN /\ last.status = "FlyteAssertion"
                 /\ IsSubstring(last.path, last.msg)
                 /\ IsSubstring(last.local, last.msg)
                 /\ IsSubstring(<<" (recursive=">> \o StrBool(last.multipart), last.msg)
                 /\ IsSubstring(cause, last.msg)
            ELSE /\ last.status = "ok"
                 /\ last.calls =
                        <<BackendCall(r.ret,
                                      IF last.multipart THEN "download_directory"
                                      ELSE "download",
                                      last.path, last.local)>>

C5_Witness ==
    /\ last.op = "get_data"
    /\ last.path = MemPath
    /\ last.fault # NoFault
    /\ last.status = "FlyteAssertion"
    /\ Len(last.calls) = 1

\* put_data made one upload / upload_directory call, on the provider's
\* default remote backend; and a constructor that returned took that backend
\* from resolving the raw output prefix.
PutOnDefaultRemote ==
    /\ last.op = "put_data" =>
           /\ Len(last.calls) = 1
           /\ last.calls[1].backend = client.default_remote
           /\ last.calls[1].op = IF last.multipart THEN "upload_directory" ELSE "upload"
    /\ (last.op = "__init__" /\ last.status = "ok") =>
           client.default_remote = FindPlugin(last.before, last.path).ret

\* C6: put_data always calls upload / upload_directory on the default remote
\* backend the provider resolved once, at construction, from the raw output
\* prefix, whatever remote_path resolves to and whatever the registry has
\* become since: no step but a constructor changes the default remote backend.
C6_PutDataUsesDefaultRemote ==
    /\ []PutOnDefaultRemote
    /\ [][last'.op # "__init__" => client'.default_remote = client.default_remote]_vars

C6_Witness ==
    /\ last.op = "put_data"
    /\ last.path = TmpPath
    /\ last.calls[1].backend = DISK_ROOT
    /\ FindPlugin(PLUGINS, last.path).ret = MEM
    /\ FindPlugin(PLUGINS, client.raw_output_prefix).ret = MEM

RandomRemoteOps == {"get_random_remote_path", "get_random_remote_directory"}
RandomLocalOps == {"get_random_local_path", "get_random_local_directory"}

\* C7: the random path is <base>/<key>/<filename> when the hint has a
\* non-empty final segment and <base>/<key> otherwise, key being 32 hex digits,
\* filename the hint's final segment, and base the raw output prefix for the
\* default remote backend and the sandbox directory for the local backend.
C7_RandomPathUnderBackendBase ==
    last.op \in RandomRemoteOps \cup RandomLocalOps =>
        LET base == IF last.op \in RandomRemoteOps THEN client.raw_output_prefix
                    ELSE client.local_sandbox_dir
            filename == SplitTail(last.hint)
        IN  /\ Len(last.key) = 32
            /\ \A i \in 1..Len(last.key) : \E j \in 1..16 : last.key[i] = HexDigits[j]
            /\ last.rpath = IF filename # <<>>
                            THEN base \o <<"/">> \o last.key \o <<"/">> \o filename
                            ELSE base \o <<"/">> \o last.key

----------------------------------------------------------------------------
(* Claims about DiskPersistence, checked under SpecDisk                    *)

\* The files anywhere below directory top, each as its full path
FilesBelow(top) == {e \in fs.files : StartsWith(e, top \o <<"/">>)}

\* The entries directly in directory top, each as its full path
EntriesIn(entries, top) ==
    {e \in entries : StartsWith(e, top \o <<"/">>) /\ Len(e) = Len(top) + 2}

\* The part of path e after top and its separator
RelativeTo(e, top) == SubSeq(e, Len(top) + 2, Len(e))

C9_NoCopyOntoSameLocation ==
    dop.op \in {"download_directory", "upload_directory"} =>
        (dop.copied <=> StripFileHeader(dop.from) # StripFileHeader(dop.to))

----------------------------------------------------------------------------
(* Claims about concurrent uploads, checked under SpecUpload               *)

\* Every caller's destination lies directly in the one missing directory.
CallersShareParent == \A c \in Callers : ParentOf(req[c].to) = Shared

\* C10: under every interleaving of concurrent uploads whose destinations
\* share a directory that does not exist yet, no caller's exists / makedirs /
\* copy steps raise: a create that fails because another caller made the
\* directory first is tolerated; and whatever the destinations, the directory
\* step raises only if, after the failed create, the path is not a directory.
C10_ConcurrentUploadsTolerateRace ==
    /\ CallersShareParent =>
           \A c \in Callers : pc[c] \notin {"raised_makedirs", "raised_copy"}
    /\ \A c \in Callers :
           pc[c] = "raised_makedirs" => ~IsDir(fs, ParentOf(req[c].to))

C10_Witness ==
    /\ CallersShareParent
    /\ \A c \in Callers : pc[c] = "done"
    /\ \E c \in Callers : tolerated[c]
    /\ \E c, e \in Callers : req[c].to # req[e].to

----------------------------------------------------------------------------
(* Claims about the registry's keys and order, checked under Spec          *)

\* The protocols of a registry, in their resolution order
KeySeq(d) == [i \in 1..Len(d) |-> d[i].k]

\* s is a leading part of t
IsPrefixSeq(s, t) == Len(s) <= Len(t) /\ SubSeq(t, 1, Len(s)) = s

\* C11: after any sequence of register calls, whatever their outcome and
\* force, no registered protocol is ever dropped, every protocol is bound to
\* exactly one backend, and the resolution order is the order in which each
\* protocol was first registered: a call keeps the protocols it found in their
\* places, and a forced replacement changes the backend of its protocol and
\* nothing else.
C11_KeysKeepFirstRegistrationOrder ==
    /\ KeySeq(PLUGINS) = regOrder
    /\ \A i, j \in 1..Len(PLUGINS) : PLUGINS[i].k = PLUGINS[j].k => i = j
    /\ last.op = "register_plugin" =>
           /\ Keys(last.before) \subseteq Keys(PLUGINS)
           /\ IsPrefixSeq(KeySeq(last.before), KeySeq(PLUGINS))
           /\ Len(PLUGINS) <= Len(last.before) + 1
    /\ RegisteredOverOther(TRUE) =>
           /\ KeySeq(PLUGINS) = KeySeq(last.before)
           /\ \A i \in 1..Len(PLUGINS) :
                  PLUGINS[i].p = IF PLUGINS[i].k = last.protocol THEN last.plugin
                                 ELSE last.before[i].p

C11_Witness ==
    /\ RegisteredOverOther(TRUE)
    /\ last.protocol = P_ROOT
    /\ KeySeq(PLUGINS) = <<PROTOCOL, P_ROOT, P_TMP, P_MEM>>
    /\ GetItem(PLUGINS, P_ROOT) = MEM
    /\ GetItem(last.before, P_ROOT) = DISK_ROOT

=============================================================================
